---------------------------- MODULE Spec2Model ----------------------------
(***************************************************************************)
(* Model of server.js: an Express REST facade over a WhatsApp client       *)
(* library.  The program state is the client handle, the readiness flag    *)
(* and the requests that are suspended at an await; the wrapped library is *)
(* an environment that emits lifecycle events and settles the calls made   *)
(* on it in any way it likes (a value, undefined, or a rejection).         *)
(***************************************************************************)
EXTENDS Integers, Sequences, FiniteSets, TLC

\* Requests that may be being handled at the same time.
MaxReq == 1

\* Client objects that may be constructed in one run (start-up included).
MaxClients == 2

\* Messages carried by the errors the library throws.
Msgs == {"Evaluation failed", "Session closed"}

(***************************************************************************)
(* The gated routes.  Each descriptor is read off one handler: the body    *)
(* fields tested with !field (required), those also tested with            *)
(* Array.isArray (arrays), req.file (files), the 400 error of the          *)
(* validation, the awaited library calls in program order, the property    *)
(* of the first result that is tested before going on (guard) with its     *)
(* 400 error, and whether the result of the last call is dereferenced      *)
(* before the response is sent (derefLast).                                *)
(***************************************************************************)
SendMessage ==
    [method |-> "POST", path |-> "/send-message",
     required |-> {"to", "message"}, arrays |-> {}, files |-> {},
     error400 |-> "to and message are required",
     calls |-> <<"client.sendMessage">>,
     guard |-> "", guardError |-> "", derefLast |-> TRUE]

ReplyMessage ==
    [method |-> "POST", path |-> "/reply-message",
     required |-> {"messageId", "reply"}, arrays |-> {}, files |-> {},
     error400 |-> "messageId and reply are required",
     calls |-> <<"client.getMessageById", "message.reply">>,
     guard |-> "", guardError |-> "", derefLast |-> FALSE]

SetSubject ==
    [method |-> "POST", path |-> "/set-subject",
     required |-> {"chatId", "subject"}, arrays |-> {}, files |-> {},
     error400 |-> "chatId and subject are required",
     calls |-> <<"client.getChatById", "chat.setSubject">>,
     guard |-> "isGroup", guardError |-> "This can only be used in a group", derefLast |-> FALSE]

SetDescription ==
    [method |-> "POST", path |-> "/set-description",
     required |-> {"chatId", "description"}, arrays |-> {}, files |-> {},
     error400 |-> "chatId and description are required",
     calls |-> <<"client.getChatById", "chat.setDescription">>,
     guard |-> "isGroup", guardError |-> "This can only be used in a group", derefLast |-> FALSE]

LeaveGroup ==
    [method |-> "POST", path |-> "/leave-group",
     required |-> {"chatId"}, arrays |-> {}, files |-> {},
     error400 |-> "chatId is required",
     calls |-> <<"client.getChatById", "chat.leave">>,
     guard |-> "isGroup", guardError |-> "This can only be used in a group", derefLast |-> FALSE]

JoinGroup ==
    [method |-> "POST", path |-> "/join-group",
     required |-> {"inviteCode"}, arrays |-> {}, files |-> {},
     error400 |-> "inviteCode is required",
     calls |-> <<"client.acceptInvite">>,
     guard |-> "", guardError |-> "", derefLast |-> FALSE]

AddMembers ==
    [method |-> "POST", path |-> "/add-members",
     required |-> {"chatId"}, arrays |-> {"participants"}, files |-> {},
     error400 |-> "chatId and participants array are required",
     calls |-> <<"client.getChatById", "group.addParticipants">>,
     guard |-> "", guardError |-> "", derefLast |-> FALSE]

CreateGroup ==
    [method |-> "POST", path |-> "/create-group",
     required |-> {"title"}, arrays |-> {"participants"}, files |-> {},
     error400 |-> "title and participants array are required",
     calls |-> <<"client.createGroup">>,
     guard |-> "", guardError |-> "", derefLast |-> FALSE]

GroupInfo ==
    [method |-> "GET", path |-> "/group-info/:chatId",
     required |-> {}, arrays |-> {}, files |-> {},
     error400 |-> "",
     calls |-> <<"client.getChatById">>,
     guard |-> "isGroup", guardError |-> "This can only be used in a group", derefLast |-> FALSE]

Chats ==
    [method |-> "GET", path |-> "/chats",
     required |-> {}, arrays |-> {}, files |-> {},
     error400 |-> "",
     calls |-> <<"client.getChats">>,
     guard |-> "", guardError |-> "", derefLast |-> TRUE]

Info ==
    [method |-> "GET", path |-> "/info",
     required |-> {}, arrays |-> {}, files |-> {},
     error400 |-> "",
     calls |-> <<>>,
     guard |-> "", guardError |-> "", derefLast |-> FALSE]

SendLocation ==
    [method |-> "POST", path |-> "/send-location",
     required |-> {"to", "latitude", "longitude"}, arrays |-> {}, files |-> {},
     error400 |-> "to, latitude, and longitude are required",
     calls |-> <<"client.sendMessage">>,
     guard |-> "", guardError |-> "", derefLast |-> FALSE]

SetStatus ==
    [method |-> "POST", path |-> "/set-status",
     required |-> {"status"}, arrays |-> {}, files |-> {},
     error400 |-> "status is required",
     calls |-> <<"client.setStatus">>,
     guard |-> "", guardError |-> "", derefLast |-> FALSE]

MentionUsers ==
    [method |-> "POST", path |-> "/mention-users",
     required |-> {"chatId", "message"}, arrays |-> {"mentions"}, files |-> {},
     error400 |-> "chatId, message, and mentions array are required",
     calls |-> <<"client.getChatById", "chat.sendMessage">>,
     guard |-> "", guardError |-> "", derefLast |-> FALSE]

MentionGroups ==
    [method |-> "POST", path |-> "/mention-groups",
     required |-> {"chatId", "message", "groupMentions"}, arrays |-> {}, files |-> {},
     error400 |-> "chatId, message, and groupMentions are required",
     calls |-> <<"client.getChatById", "chat.sendMessage">>,
     guard |-> "", guardError |-> "", derefLast |-> FALSE]

\* DeleteMessage without its fromMe test.
DeleteMessage_NoGuard ==
    [method |-> "POST", path |-> "/delete-message",
     required |-> {"messageId"}, arrays |-> {}, files |-> {},
     error400 |-> "messageId is required",
     calls |-> <<"client.getMessageById", "message.delete">>,
     guard |-> "", guardError |-> "", derefLast |-> FALSE]

DeleteMessage ==
    [method |-> "POST", path |-> "/delete-message",
     required |-> {"messageId"}, arrays |-> {}, files |-> {},
     error400 |-> "messageId is required",
     calls |-> <<"client.getMessageById", "message.delete">>,
     guard |-> "fromMe", guardError |-> "Can only delete own messages", derefLast |-> FALSE]

PinChat ==
    [method |-> "POST", path |-> "/pin-chat",
     required |-> {"chatId"}, arrays |-> {}, files |-> {},
     error400 |-> "chatId is required",
     calls |-> <<"client.getChatById", "chat.pin">>,
     guard |-> "", guardError |-> "", derefLast |-> FALSE]

ArchiveChat ==
    [method |-> "POST", path |-> "/archive-chat",
     required |-> {"chatId"}, arrays |-> {}, files |-> {},
     error400 |-> "chatId is required",
     calls |-> <<"client.getChatById", "chat.archive">>,
     guard |-> "", guardError |-> "", derefLast |-> FALSE]

MuteChat ==
    [method |-> "POST", path |-> "/mute-chat",
     required |-> {"chatId"}, arrays |-> {}, files |-> {},
     error400 |-> "chatId is required",
     calls |-> <<"client.getChatById", "chat.mute">>,
     guard |-> "", guardError |-> "", derefLast |-> FALSE]

SendTyping ==
    [method |-> "POST", path |-> "/send-typing",
     required |-> {"chatId"}, arrays |-> {}, files |-> {},
     error400 |-> "chatId is required",
     calls |-> <<"client.getChatById", "chat.sendStateTyping">>,
     guard |-> "", guardError |-> "", derefLast |-> FALSE]

SendRecording ==
    [method |-> "POST", path |-> "/send-recording",
     required |-> {"chatId"}, arrays |-> {}, files |-> {},
     error400 |-> "chatId is required",
     calls |-> <<"client.getChatById", "chat.sendStateRecording">>,
     guard |-> "", guardError |-> "", derefLast |-> FALSE]

ClearState ==
    [method |-> "POST", path |-> "/clear-state",
     required |-> {"chatId"}, arrays |-> {}, files |-> {},
     error400 |-> "chatId is required",
     calls |-> <<"client.getChatById", "chat.clearState">>,
     guard |-> "", guardError |-> "", derefLast |-> FALSE]

SendButtons ==
    [method |-> "POST", path |-> "/send-buttons",
     required |-> {"to", "body"}, arrays |-> {"buttons"}, files |-> {},
     error400 |-> "to, body, and buttons array are required",
     calls |-> <<"client.sendMessage">>,
     guard |-> "", guardError |-> "", derefLast |-> FALSE]

SendList ==
    [method |-> "POST", path |-> "/send-list",
     required |-> {"to", "body", "buttonText"}, arrays |-> {"sections"}, files |-> {},
     error400 |-> "to, body, buttonText, and sections array are required",
     calls |-> <<"client.sendMessage">>,
     guard |-> "", guardError |-> "", derefLast |-> FALSE]

SendReaction ==
    [method |-> "POST", path |-> "/send-reaction",
     required |-> {"messageId", "reaction"}, arrays |-> {}, files |-> {},
     error400 |-> "messageId and reaction are required",
     calls |-> <<"client.getMessageById", "message.react">>,
     guard |-> "", guardError |-> "", derefLast |-> FALSE]

SendPoll ==
    [method |-> "POST", path |-> "/send-poll",
     required |-> {"to", "question"}, arrays |-> {"options"}, files |-> {},
     error400 |-> "to, question, and options array are required",
     calls |-> <<"client.sendMessage">>,
     guard |-> "", guardError |-> "", derefLast |-> FALSE]

EditMessage ==
    [method |-> "POST", path |-> "/edit-message",
     required |-> {"messageId", "newText"}, arrays |-> {}, files |-> {},
     error400 |-> "messageId and newText are required",
     calls |-> <<"client.getMessageById", "message.edit">>,
     guard |-> "fromMe", guardError |-> "Can only edit own messages", derefLast |-> FALSE]

UpdateLabels ==
    [method |-> "POST", path |-> "/update-labels",
     required |-> {"chatId"}, arrays |-> {"labelIds"}, files |-> {},
     error400 |-> "chatId and labelIds array are required",
     calls |-> <<"client.getChatById", "chat.changeLabels">>,
     guard |-> "", guardError |-> "", derefLast |-> FALSE]

AddLabels ==
    [method |-> "POST", path |-> "/add-labels",
     required |-> {"chatId"}, arrays |-> {"newLabelIds"}, files |-> {},
     error400 |-> "chatId and newLabelIds array are required",
     calls |-> <<"client.getChatById", "chat.getLabels", "chat.changeLabels">>,
     guard |-> "", guardError |-> "", derefLast |-> FALSE]

RemoveLabels ==
    [method |-> "POST", path |-> "/remove-labels",
     required |-> {"chatId"}, arrays |-> {}, files |-> {},
     error400 |-> "chatId is required",
     calls |-> <<"client.getChatById", "chat.changeLabels">>,
     guard |-> "", guardError |-> "", derefLast |-> FALSE]

ApproveRequest ==
    [method |-> "POST", path |-> "/approve-request",
     required |-> {"chatId"}, arrays |-> {}, files |-> {},
     error400 |-> "chatId is required",
     calls |-> <<"client.approveGroupMembershipRequests">>,
     guard |-> "", guardError |-> "", derefLast |-> FALSE]

RejectRequest ==
    [method |-> "POST", path |-> "/reject-request",
     required |-> {"chatId"}, arrays |-> {}, files |-> {},
     error400 |-> "chatId is required",
     calls |-> <<"client.rejectGroupMembershipRequests">>,
     guard |-> "", guardError |-> "", derefLast |-> FALSE]

PinMessage ==
    [method |-> "POST", path |-> "/pin-message",
     required |-> {"messageId"}, arrays |-> {}, files |-> {},
     error400 |-> "messageId is required",
     calls |-> <<"client.getMessageById", "message.pin">>,
     guard |-> "", guardError |-> "", derefLast |-> FALSE]

UnpinMessage ==
    [method |-> "POST", path |-> "/unpin-message",
     required |-> {"messageId"}, arrays |-> {}, files |-> {},
     error400 |-> "messageId is required",
     calls |-> <<"client.getMessageById", "message.unpin">>,
     guard |-> "", guardError |-> "", derefLast |-> FALSE]

DeviceCount ==
    [method |-> "GET", path |-> "/device-count/:contactId",
     required |-> {}, arrays |-> {}, files |-> {},
     error400 |-> "",
     calls |-> <<"client.getContactDeviceCount">>,
     guard |-> "", guardError |-> "", derefLast |-> FALSE]

SyncHistory ==
    [method |-> "POST", path |-> "/sync-history",
     required |-> {"chatId"}, arrays |-> {}, files |-> {},
     error400 |-> "chatId is required",
     calls |-> <<"client.syncHistory">>,
     guard |-> "", guardError |-> "", derefLast |-> FALSE]

Statuses ==
    [method |-> "GET", path |-> "/statuses",
     required |-> {}, arrays |-> {}, files |-> {},
     error400 |-> "",
     calls |-> <<"client.getBroadcasts">>,
     guard |-> "", guardError |-> "", derefLast |-> FALSE]

SendMedia ==
    [method |-> "POST", path |-> "/send-media",
     required |-> {"to"}, arrays |-> {}, files |-> {"media"},
     error400 |-> "to and media file are required",
     calls |-> <<"client.sendMessage">>,
     guard |-> "", guardError |-> "", derefLast |-> FALSE]

SendVCard ==
    [method |-> "POST", path |-> "/send-vcard",
     required |-> {"to", "vCard"}, arrays |-> {}, files |-> {},
     error400 |-> "to and vCard are required",
     calls |-> <<"client.sendMessage">>,
     guard |-> "", guardError |-> "", derefLast |-> FALSE]

ChangeSync ==
    [method |-> "POST", path |-> "/change-sync",
     required |-> {}, arrays |-> {}, files |-> {},
     error400 |-> "",
     calls |-> <<"client.setBackgroundSync">>,
     guard |-> "", guardError |-> "", derefLast |-> FALSE]

DownloadMedia ==
    [method |-> "GET", path |-> "/download-media/:messageId",
     required |-> {}, arrays |-> {}, files |-> {},
     error400 |-> "",
     calls |-> <<"client.getMessageById", "message.downloadMedia">>,
     guard |-> "hasMedia", guardError |-> "Message does not have media", derefLast |-> TRUE]

MessageInfo ==
    [method |-> "GET", path |-> "/message-info/:messageId",
     required |-> {}, arrays |-> {}, files |-> {},
     error400 |-> "",
     calls |-> <<"client.getMessageById">>,
     guard |-> "", guardError |-> "", derefLast |-> TRUE]

QuotedMessage ==
    [method |-> "GET", path |-> "/quoted-message/:messageId",
     required |-> {}, arrays |-> {}, files |-> {},
     error400 |-> "",
     calls |-> <<"client.getMessageById", "message.getQuotedMessage">>,
     guard |-> "hasQuotedMsg", guardError |-> "Message does not have quoted message", derefLast |-> TRUE]

JumpToMessage ==
    [method |-> "POST", path |-> "/jump-to-message",
     required |-> {"messageId"}, arrays |-> {}, files |-> {},
     error400 |-> "messageId is required",
     calls |-> <<"client.interface.openChatWindowAt">>,
     guard |-> "", guardError |-> "", derefLast |-> FALSE]

Contacts ==
    [method |-> "GET", path |-> "/contacts",
     required |-> {}, arrays |-> {}, files |-> {},
     error400 |-> "",
     calls |-> <<"client.getContacts">>,
     guard |-> "", guardError |-> "", derefLast |-> TRUE]

Chat ==
    [method |-> "GET", path |-> "/chat/:chatId",
     required |-> {}, arrays |-> {}, files |-> {},
     error400 |-> "",
     calls |-> <<"client.getChatById">>,
     guard |-> "", guardError |-> "", derefLast |-> TRUE]

Messages ==
    [method |-> "GET", path |-> "/messages/:chatId",
     required |-> {}, arrays |-> {}, files |-> {},
     error400 |-> "",
     calls |-> <<"client.getChatById", "chat.fetchMessages">>,
     guard |-> "", guardError |-> "", derefLast |-> TRUE]

SendPreview ==
    [method |-> "POST", path |-> "/send-preview",
     required |-> {"to", "text"}, arrays |-> {}, files |-> {},
     error400 |-> "to and text are required",
     calls |-> <<"client.sendMessage">>,
     guard |-> "", guardError |-> "", derefLast |-> FALSE]

Handlers ==
    {SendMessage, ReplyMessage, SetSubject, SetDescription, LeaveGroup,
     JoinGroup, AddMembers, CreateGroup, GroupInfo, Chats, Info,
     SendLocation, SetStatus, MentionUsers, MentionGroups, DeleteMessage,
     PinChat, ArchiveChat, MuteChat, SendTyping, SendRecording, ClearState,
     SendButtons, SendList, SendReaction, SendPoll, EditMessage,
     UpdateLabels, AddLabels, RemoveLabels, ApproveRequest, RejectRequest,
     PinMessage, UnpinMessage, DeviceCount, SyncHistory, Statuses, SendMedia,
     SendVCard, ChangeSync, DownloadMedia, MessageInfo, QuotedMessage,
     JumpToMessage, Contacts, Chat, Messages, SendPreview}

HandlerOf(method, path) ==
    CHOOSE h \in Handlers : h.method = method /\ h.path = path

(***************************************************************************)
(* Request bodies.  A field tested with !field is absent (undefined), is   *)
(* present with a falsy value (0, "", false, null) or present with a       *)
(* truthy one; a field also tested with Array.isArray is absent, a truthy  *)
(* non-array or an array; req.file is absent or stored by the upload       *)
(* middleware.                                                             *)
(***************************************************************************)
Fields(h) == h.required \cup h.arrays \cup h.files

Bodies(h) ==
    {r @@ a @@ f : r \in [h.required -> {"absent", "falsy", "truthy"}],
                   a \in [h.arrays -> {"absent", "nonarray", "array"}],
                   f \in [h.files -> {"absent", "truthy"}]}

EmptyBody == [f \in {} |-> "absent"]

\* !v
Falsy(v) == v \in {"absent", "falsy"}

\* Array.isArray(v)
IsArray(v) == v = "array"

\* Invalid without its Array.isArray tests.
Invalid_NoArrayCheck(h, b) == \E f \in h.required \cup h.files \cup h.arrays : Falsy(b[f])

\* The if (!a || !b || !Array.isArray(b)) test that opens a handler.
Invalid(h, b) ==
    \/ \E f \in h.required \cup h.files : Falsy(b[f])
    \/ \E f \in h.arrays : Falsy(b[f]) \/ ~IsArray(b[f])

(***************************************************************************)
(* Recipient ids.  A string is the sequence of its characters; the ids     *)
(* are the non-empty strings of at most MaxIdLen characters over Chars (a  *)
(* handler answers 400 to the empty string).                               *)
(***************************************************************************)
MaxIdLen == 6

Chars == {"1", "@", "c", ".", "u", "s"}

Suffix == <<"@", "c", ".", "u", "s">>

Ids == UNION {[1 .. n -> Chars] : n \in 1 .. MaxIdLen}

\* String.prototype.includes
includes(s, t) ==
    \E i \in 1 .. Len(s) - Len(t) + 1 : SubSeq(s, i, i + Len(t) - 1) = t

\* chatId appending the suffix to every id.
chatId_Always(to) == to \o Suffix

\* const chatId = to.includes('@c.us') ? to : `${to}@c.us`
chatId(to) == IF includes(to, Suffix) THEN to ELSE to \o Suffix

VARIABLES
    client,       \* let client: the id of the Client object it refers to
    clients,      \* the Client objects constructed so far, listeners attached
    clientReady,  \* let clientReady
    reqs,         \* the requests being handled, in order of arrival
    last,         \* the listener run by the step just taken, "" if none
    recipient,    \* the id a handler is given and the chat id it makes of it
    labels,       \* the label ids on the chat, kept by the library
    added         \* the label ids POST /add-labels has answered success for

vars == <<client, clients, clientReady, reqs, last, recipient, labels, added>>

(***************************************************************************)
(* A request being handled: the route and body, the value of clientReady   *)
(* when it arrived, the library calls made for it so far and the value of  *)
(* clientReady as each was made, how the library settled the last of them, *)
(* and the response once it is sent (status 0 stands for none yet).  ids   *)
(* are the elements of the array of label ids in the body, arg the label   *)
(* ids the request has passed to chat.changeLabels.                        *)
(***************************************************************************)
Arrived(method, path, b) ==
    [method |-> method, path |-> path, body |-> b, arrivedReady |-> clientReady,
     calls |-> <<>>, readyAt |-> <<>>,
     outcome |-> "", thrown |-> "", prop |-> "none",
     status |-> 0, error |-> "", message |-> "", ready |-> FALSE,
     file |-> "none", ids |-> {}, arg |-> {}]

(***************************************************************************)
(* upload.single stores the uploaded file under uploads/ before the        *)
(* handler runs; the handler of /send-media unlinks it after the library   *)
(* call has resolved.  file is "none" while the request has stored no      *)
(* file, then "stored", then "deleted".                                    *)
(***************************************************************************)
upload(h, b, r) ==
    IF \E f \in h.files : b[f] = "truthy"
    THEN [r EXCEPT !.file = "stored"]
    ELSE r

unlinkSync(h, r) ==
    IF h.files # {} THEN [r EXCEPT !.file = "deleted"] ELSE r

\* res.status(s).json({ error: e })
ErrorResponse(r, s, e) == [r EXCEPT !.status = s, !.error = e]

\* res.json({ ... }): status 200
OkResponse(r) == [r EXCEPT !.status = 200]

\* Catch answering as the final error middleware does, not with error.message.
Catch_Generic(r, m) == ErrorResponse(r, 500, "Internal server error")

\* The catch block of a handler: res.status(500).json({ error: error.message })
Catch(r, m) == ErrorResponse(r, 500, m)

\* checkClientReady always calling next().
checkClientReady_Open == TRUE

\* checkClientReady calls next() iff clientReady; otherwise it answers 503.
checkClientReady == clientReady

NotReady(r) == ErrorResponse(r, 503, "WhatsApp client not ready")

\* The guard without its early return.
GuardFails_Never(p) == FALSE

\* if (!chat.isGroup), if (!message.fromMe), if (!message.hasMedia), ...
GuardFails(p) == p # "true"

Answered(i) == reqs[i].status # 0

\* The event loop is between turns: no listener is running and no response
\* is waiting to leave.
Quiet == last = "" /\ \A i \in 1 .. Len(reqs) : ~Answered(i)

\* The server takes a request when no response is waiting to leave.
Accepting == Quiet /\ Len(reqs) < MaxReq

Remove(s, i) == [j \in 1 .. Len(s) - 1 |-> IF j < i THEN s[j] ELSE s[j + 1]]

(***************************************************************************)
(* initializeClient: constructs a Client, stores it in the global client,  *)
(* starts it and attaches the eight listeners.  Nothing destroys the       *)
(* Client that the global referred to before, nor detaches its listeners.  *)
(***************************************************************************)
initializeClient ==
    LET id == Cardinality(clients) + 1
    IN  /\ client' = id
        /\ clients' = clients \cup {id}

\* No id has been given.
NoRecipient == [first |-> <<>>, to |-> <<>>, chatId |-> <<>>, again |-> FALSE]

\* The module has been evaluated: initializeClient() has run once.
Init ==
    /\ client = 1
    /\ clients = {1}
    /\ clientReady = FALSE
    /\ reqs = <<>>
    /\ last = ""
    /\ recipient = NoRecipient
    /\ labels = {}
    /\ added = {}

(***************************************************************************)
(* Lifecycle events, emitted by any Client whose listeners are attached.   *)
(***************************************************************************)
OnLoadingScreen(c) ==
    /\ Quiet
    /\ last' = "loading_screen"
    /\ UNCHANGED <<client, clients, clientReady, reqs, recipient, labels, added>>

OnQr(c) ==
    /\ Quiet
    /\ last' = "qr"
    /\ UNCHANGED <<client, clients, clientReady, reqs, recipient, labels, added>>

OnCode(c) ==
    /\ Quiet
    /\ last' = "code"
    /\ UNCHANGED <<client, clients, clientReady, reqs, recipient, labels, added>>

\* OnAuthenticated marking the client ready.
OnAuthenticated_SetsReady(c) ==
    /\ Quiet
    /\ last' = "authenticated"
    /\ clientReady' = TRUE
    /\ UNCHANGED <<client, clients, reqs, recipient, labels, added>>

OnAuthenticated(c) ==
    /\ Quiet
    /\ last' = "authenticated"
    /\ UNCHANGED <<client, clients, clientReady, reqs, recipient, labels, added>>

OnAuthFailure(c) ==
    /\ Quiet
    /\ last' = "auth_failure"
    /\ clientReady' = FALSE
    /\ UNCHANGED <<client, clients, reqs, recipient, labels, added>>

\* The listener goes on to await client.getWWebVersion() and logs the result.
OnReady(c) ==
    /\ Quiet
    /\ last' = "ready"
    /\ clientReady' = TRUE
    /\ UNCHANGED <<client, clients, reqs, recipient, labels, added>>

OnMessage(c) ==
    /\ Quiet
    /\ last' = "message"
    /\ UNCHANGED <<client, clients, clientReady, reqs, recipient, labels, added>>

OnDisconnected(c) ==
    /\ Quiet
    /\ last' = "disconnected"
    /\ clientReady' = FALSE
    /\ UNCHANGED <<client, clients, reqs, recipient, labels, added>>

\* The listener returns.
Return ==
    /\ last # ""
    /\ last' = ""
    /\ UNCHANGED <<client, clients, clientReady, reqs, recipient, labels, added>>

(***************************************************************************)
(* The two routes that are not gated.                                      *)
(***************************************************************************)
\* GetStatus behind checkClientReady like the other routes.
GetStatus_Gated ==
    /\ Accepting
    /\ last' = ""
    /\ reqs' = Append(reqs, IF checkClientReady
                            THEN [OkResponse(Arrived("GET", "/status", EmptyBody))
                                     EXCEPT !.ready = clientReady]
                            ELSE NotReady(Arrived("GET", "/status", EmptyBody)))
    /\ UNCHANGED <<client, clients, clientReady, recipient, labels, added>>

GetStatus ==
    /\ Accepting
    /\ last' = ""
    /\ reqs' = Append(reqs, [OkResponse(Arrived("GET", "/status", EmptyBody))
                                EXCEPT !.ready = clientReady])
    /\ UNCHANGED <<client, clients, clientReady, recipient, labels, added>>

\* PostInitialize without its clientReady test.
PostInitialize_Always ==
    /\ Accepting
    /\ last' = ""
    /\ Cardinality(clients) < MaxClients
    /\ initializeClient
    /\ reqs' = Append(reqs, [OkResponse(Arrived("POST", "/initialize", EmptyBody))
                               EXCEPT !.message = "Client initialization started"])
    /\ UNCHANGED <<clientReady, recipient, labels, added>>

PostInitialize ==
    /\ Accepting
    /\ last' = ""
    /\ IF clientReady
       THEN /\ reqs' = Append(reqs, [OkResponse(Arrived("POST", "/initialize", EmptyBody))
                                       EXCEPT !.message = "Client already initialized"])
            /\ UNCHANGED <<client, clients, clientReady, recipient, labels, added>>
       ELSE /\ Cardinality(clients) < MaxClients
            /\ initializeClient
            /\ reqs' = Append(reqs, [OkResponse(Arrived("POST", "/initialize", EmptyBody))
                                       EXCEPT !.message = "Client initialization started"])
            /\ UNCHANGED <<clientReady, recipient, labels, added>>

(***************************************************************************)
(* The labels a handler passes to chat.changeLabels: /update-labels the    *)
(* labelIds of its body, /add-labels the labels chat.getLabels has just    *)
(* resolved with followed by the newLabelIds of its body, /remove-labels   *)
(* none.  The chat then has the labels passed, and no others.              *)
(***************************************************************************)
changeLabelsArg(r) ==
    IF r.path = "/update-labels" THEN r.ids
    ELSE IF r.path = "/add-labels" THEN labels \cup r.ids
    ELSE {}

\* The handler of request r calls a method of the library and awaits it.
Call(r, method) ==
    [r EXCEPT !.calls = Append(@, method), !.readyAt = Append(@, clientReady),
              !.arg = IF method = "chat.changeLabels"
                      THEN changeLabelsArg(r) ELSE @]

\* The library resolves the chat.changeLabels that request r awaits.
Changed(r, o) ==
    o.kind # "throw" /\ r.calls[Len(r.calls)] = "chat.changeLabels"

(***************************************************************************)
(* A gated request, from its arrival to its first await or its response:   *)
(* checkClientReady, the validation of the body, the first library call.   *)
(* n bounds the requests handled at a time; ids are the elements of the    *)
(* array of label ids in the body.                                         *)
(***************************************************************************)
Serve(n, h, b, ids) ==
    LET a == [Arrived(h.method, h.path, b) EXCEPT !.ids = ids]
        r == upload(h, b, a)
    IN  /\ Quiet
        /\ Len(reqs) < n
        /\ last' = ""
        /\ UNCHANGED <<client, clients, clientReady, recipient, labels, added>>
        /\ IF ~checkClientReady
           THEN reqs' = Append(reqs, NotReady(a))
           ELSE IF Invalid(h, b)
           THEN reqs' = Append(reqs, ErrorResponse(r, 400, h.error400))
           ELSE IF h.calls = <<>>
           THEN \* GET /info reads client.info, which is undefined until
                \* the Client the global refers to is ready
                \E defined \in BOOLEAN :
                    reqs' = Append(reqs, IF defined THEN OkResponse(r)
                                         ELSE Catch(r, "TypeError"))
           ELSE reqs' = Append(reqs, Call(r, h.calls[1]))

\* At most MaxReq requests at a time, the arrays of their bodies empty.
GatedRequest(h, b) == Serve(MaxReq, h, b, {})

(***************************************************************************)
(* The library settles the call a request awaits: it rejects with a        *)
(* message, resolves with undefined, or resolves with an object whose      *)
(* guard property (isGroup, fromMe, hasMedia, hasQuotedMsg) is prop.       *)
(***************************************************************************)
Guarded(h, k) == k = 1 /\ h.guard # ""

Outcomes ==
    [kind : {"throw"}, thrown : Msgs, prop : {"none"}]
    \cup [kind : {"undefined"}, thrown : {""}, prop : {"none"}]
    \cup [kind : {"value"}, thrown : {""}, prop : {"none", "true", "false"}]

\* The handler reads a property of, or calls a method on, the k-th result.
Dereferenced(h, k) == k < Len(h.calls) \/ Guarded(h, k) \/ h.derefLast

\* NextCall making the call that has just resolved once more.
NextCall_Repeat(h, k) == h.calls[k]

\* The call the handler makes once its k-th call has resolved.
NextCall(h, k) == h.calls[k + 1]

Resume(i, o) ==
    LET h == HandlerOf(reqs[i].method, reqs[i].path)
        k == Len(reqs[i].calls)
        r == [reqs[i] EXCEPT !.outcome = o.kind, !.thrown = o.thrown,
                             !.prop = IF o.prop = "none" THEN @ ELSE o.prop]
    IN  /\ Quiet
        /\ o.kind = "value" => (o.prop # "none" <=> Guarded(h, k))
        /\ last' = ""
        /\ UNCHANGED <<client, clients, clientReady, recipient>>
        /\ labels' = IF Changed(r, o) THEN r.arg ELSE labels
        /\ added' = IF ~Changed(r, o) THEN added
                    ELSE IF r.path = "/add-labels" THEN added \cup r.ids
                    ELSE {}
        /\ IF o.kind = "throw"
           THEN reqs' = [reqs EXCEPT ![i] = Catch(r, o.thrown)]
           ELSE IF o.kind = "undefined" /\ Dereferenced(h, k)
           THEN reqs' = [reqs EXCEPT ![i] = Catch(r, "TypeError")]
           ELSE IF Guarded(h, k) /\ GuardFails(o.prop)
           THEN reqs' = [reqs EXCEPT ![i] = ErrorResponse(r, 400, h.guardError)]
           ELSE IF k < Len(h.calls)
           THEN reqs' = [reqs EXCEPT ![i] = Call(r, NextCall(h, k))]
           ELSE reqs' = [reqs EXCEPT ![i] = OkResponse(unlinkSync(h, r))]

\* The response has left and the request is over.
Release(i) ==
    /\ Answered(i)
    /\ reqs' = Remove(reqs, i)
    /\ last' = ""
    /\ UNCHANGED <<client, clients, clientReady, recipient, labels, added>>

(***************************************************************************)
(* The normalisation on its own: a handler is given the id to, makes       *)
(* chatId of it, and a later request gives the chat id so made as its to.  *)
(***************************************************************************)
InitNormalize ==
    /\ client = 1
    /\ clients = {1}
    /\ clientReady = FALSE
    /\ reqs = <<>>
    /\ last = ""
    /\ labels = {}
    /\ added = {}
    /\ \E to \in Ids :
           recipient = [first |-> to, to |-> to, chatId |-> <<>>, again |-> FALSE]

Normalize ==
    /\ recipient.chatId = <<>>
    /\ recipient' = [recipient EXCEPT !.chatId = chatId(recipient.to)]
    /\ UNCHANGED <<client, clients, clientReady, reqs, last, labels, added>>

Resubmit ==
    /\ recipient.chatId # <<>>
    /\ ~recipient.again
    /\ recipient' = [recipient EXCEPT !.to = recipient.chatId,
                                      !.chatId = <<>>, !.again = TRUE]
    /\ UNCHANGED <<client, clients, clientReady, reqs, last, labels, added>>

NextNormalize == Normalize \/ Resubmit

SpecNormalize == InitNormalize /\ [][NextNormalize]_vars

Next ==
    \/ GetStatus
    \/ PostInitialize
    \/ Accepting /\ \E h \in Handlers : \E b \in Bodies(h) : GatedRequest(h, b)
    \/ Quiet /\ \E i \in 1 .. Len(reqs) : \E o \in Outcomes : Resume(i, o)
    \/ \E i \in 1 .. Len(reqs) : Release(i)
    \/ \E c \in clients : OnLoadingScreen(c)
    \/ \E c \in clients : OnQr(c)
    \/ \E c \in clients : OnCode(c)
    \/ \E c \in clients : OnAuthenticated(c)
    \/ \E c \in clients : OnAuthFailure(c)
    \/ \E c \in clients : OnReady(c)
    \/ \E c \in clients : OnMessage(c)
    \/ \E c \in clients : OnDisconnected(c)
    \/ Return

Spec == Init /\ [][Next]_vars

(***************************************************************************)
(* POST /add-labels on its own: up to MaxConcurrent requests at a time for *)
(* one chat, each naming some of LabelIds as its newLabelIds.              *)
(***************************************************************************)
MaxConcurrent == 2

LabelIds == {"l1", "l2"}

\* The label ids a body can name: at least one if it has the array, else none.
Contents(h, b) ==
    IF \E f \in h.arrays : IsArray(b[f])
    THEN SUBSET LabelIds \ {{}}
    ELSE {{}}

PostAddLabels(b, ids) == Serve(MaxConcurrent, AddLabels, b, ids)

NextLabels ==
    \/ Quiet /\ \E b \in Bodies(AddLabels) :
                    \E ids \in Contents(AddLabels, b) : PostAddLabels(b, ids)
    \/ Quiet /\ \E i \in 1 .. Len(reqs) : \E o \in Outcomes : Resume(i, o)
    \/ \E i \in 1 .. Len(reqs) : Release(i)
    \/ \E c \in clients : OnReady(c)
    \/ \E c \in clients : OnDisconnected(c)
    \/ Return

SpecLabels == Init /\ [][NextLabels]_vars

(***************************************************************************)
(* Properties.                                                             *)
(***************************************************************************)
Reqs == {reqs[i] : i \in 1 .. Len(reqs)}

IsStatus(r) == r.method = "GET" /\ r.path = "/status"

IsInitialize(r) == r.method = "POST" /\ r.path = "/initialize"

Gated(r) == ~IsStatus(r) /\ ~IsInitialize(r)

HandlerFor(r) == HandlerOf(r.method, r.path)

\* Some required field is absent from the body, or an array field is not an array.
MissingField(h, b) ==
    \/ \E f \in h.required \cup h.files : b[f] = "absent"
    \/ \E f \in h.arrays : b[f] # "array"

NoDup(s) == \A i, j \in 1 .. Len(s) : i # j => s[i] # s[j]

\* A request of the given route appears in this step.
Arrives(Is(_)) == (\E r \in Reqs' : Is(r)) /\ ~(\E r \in Reqs : Is(r))

\* C1: a request to a gated route that arrives while clientReady is false
\* is answered 503 'WhatsApp client not ready' whatever its body holds,
\* and no library call is made for it.
C1_ReadinessGate ==
    \A r \in Reqs :
        Gated(r) /\ ~r.arrivedReady =>
            /\ r.status = 503
            /\ r.error = "WhatsApp client not ready"
            /\ r.calls = <<>>

\* A gated request with a field missing, arrived while not ready, got 503.
C1_Witness ==
    \E r \in Reqs :
        /\ Gated(r) /\ ~r.arrivedReady /\ r.status = 503
        /\ \E f \in DOMAIN r.body : r.body[f] = "absent"

\* C2: clientReady is false at start-up, true after a 'ready' event,
\* false after an 'auth_failure' or 'disconnected' event, and unchanged
\* by every other listener and by every request handler.
C2_FlagOnLifecycleEvents ==
    /\ ~clientReady
    /\ [](last = "ready" => clientReady)
    /\ [](last \in {"auth_failure", "disconnected"} => ~clientReady)
    /\ [][last' \notin {"ready", "auth_failure", "disconnected"}
             => clientReady' = clientReady]_vars

\* A request that passed the gate is still awaiting the library when a
\* 'disconnected' event clears the flag.
C2_Witness ==
    /\ last = "disconnected"
    /\ ~clientReady
    /\ \E r \in Reqs : r.arrivedReady /\ r.status = 0

\* C3: at most one Client has been constructed and has listeners attached.
C3_OneClient == Cardinality(clients) <= 1

\* C4: a request to a handler that declares body fields, served while
\* clientReady is true, with a required field absent or an array field not
\* an array, is answered 400 with an error and makes no library call.
C4_MissingFieldIs400 ==
    \A r \in Reqs :
        /\ Gated(r) /\ r.arrivedReady /\ r.method = "POST"
        /\ MissingField(HandlerFor(r), r.body)
        => r.status = 400 /\ r.error # "" /\ r.calls = <<>>

\* POST /add-members with chatId present and participants not an array got 400.
C4_Witness ==
    \E r \in Reqs :
        /\ r.method = "POST" /\ r.path = "/add-members" /\ r.arrivedReady
        /\ r.body["chatId"] = "truthy" /\ r.body["participants"] = "nonarray"
        /\ r.status = 400 /\ r.error = "chatId and participants array are required"

\* C5: when a library call made for a request rejects with message m, the
\* request is answered 500 with error m; the calls made for it are those
\* the handler makes up to the failed one, each once.
C5_LibraryErrorEchoed ==
    \A r \in Reqs :
        r.outcome = "throw" =>
            /\ r.status = 500
            /\ r.error = r.thrown
            /\ r.calls = SubSeq(HandlerFor(r).calls, 1, Len(r.calls))

\* The first call of a handler that makes more than one rejected: the
\* request was answered 500 and the later calls were skipped.
C5_Witness ==
    \E r \in Reqs :
        /\ r.outcome = "throw" /\ r.status = 500 /\ r.error = r.thrown
        /\ Len(r.calls) = 1 /\ Len(HandlerFor(r).calls) > 1

\* C6 (the instance the claim names): POST /send-location served while
\* clientReady is true, with to a non-empty string and latitude and
\* longitude present (any number, 0 included), is not rejected by the
\* validation and reaches client.sendMessage.
C6_SendLocationPresentAccepted ==
    \A r \in Reqs :
        /\ r.method = "POST" /\ r.path = "/send-location" /\ r.arrivedReady
        /\ r.body["to"] = "truthy"
        /\ r.body["latitude"] # "absent" /\ r.body["longitude"] # "absent"
        => r.status # 400 /\ r.calls = <<"client.sendMessage">>

\* C7: library calls are made only for requests that passed the readiness
\* check and the validation, no library method is called twice for one
\* request, and once a request is answered nothing more is done for it.
C7_ValidateCallRespond ==
    /\ [](\A r \in Reqs :
            /\ r.calls # <<>> =>
                  /\ r.arrivedReady
                  /\ ~MissingField(HandlerFor(r), r.body)
                  /\ \A f \in DOMAIN r.body : ~Falsy(r.body[f])
            /\ NoDup(r.calls))
    /\ [][(\E r \in Reqs : r.status # 0) => Reqs' \subseteq Reqs]_vars

\* POST /add-labels answered 200 after its three calls.
C7_Witness ==
    \E r \in Reqs :
        /\ r.path = "/add-labels" /\ r.status = 200
        /\ r.calls = <<"client.getChatById", "chat.getLabels", "chat.changeLabels">>

\* C8: GET /status is answered 200 with ready equal to clientReady, never
\* 503, and changes neither clientReady nor the client handle.
C8_StatusAlwaysServed ==
    /\ [](\A r \in Reqs :
            IsStatus(r) => r.status = 200 /\ r.ready = clientReady /\ r.calls = <<>>)
    /\ [][Arrives(IsStatus) => UNCHANGED <<client, clients, clientReady>>]_vars

\* GET /status answered with ready false after a second Client was made.
C8_Witness ==
    \E r \in Reqs :
        IsStatus(r) /\ r.status = 200 /\ ~r.ready /\ ~clientReady /\ client = 2

\* C9: POST /initialize answers 'Client already initialized' and leaves
\* the handle and the flag alone when clientReady is true; otherwise it
\* constructs a Client, stores it as the handle, answers 'Client
\* initialization started' and leaves the flag false.
C9_Initialize ==
    /\ [](\A r \in Reqs :
            IsInitialize(r) =>
                /\ r.status = 200
                /\ r.message = IF r.arrivedReady THEN "Client already initialized"
                               ELSE "Client initialization started"
                /\ clientReady = r.arrivedReady)
    /\ [][Arrives(IsInitialize) =>
             IF clientReady
             THEN UNCHANGED <<client, clients, clientReady>>
             ELSE /\ client' \notin clients
                  /\ clients' = clients \cup {client'}
                  /\ clientReady' = FALSE]_vars

\* POST /initialize answered 'Client already initialized' in a run where an
\* earlier POST /initialize had constructed a second Client.
C9_Witness ==
    \E r \in Reqs :
        /\ IsInitialize(r) /\ r.message = "Client already initialized"
        /\ clientReady /\ Cardinality(clients) = 2

GroupOnly(r) ==
    r.method = "POST" /\ r.path \in {"/set-subject", "/set-description", "/leave-group"}

\* C10: for /set-subject, /set-description and /leave-group, a chat that is
\* not a group is answered 400 'This can only be used in a group' with no
\* call after getChatById; the second call is made only on a group.
C10_GroupOnly ==
    \A r \in Reqs :
        GroupOnly(r) =>
            /\ r.prop = "false" =>
                  /\ r.status = 400
                  /\ r.error = "This can only be used in a group"
                  /\ r.calls = <<"client.getChatById">>
            /\ Len(r.calls) = 2 => r.prop = "true"

\* POST /leave-group on a chat that is not a group got the 400.
C10_Witness ==
    \E r \in Reqs :
        /\ r.path = "/leave-group" /\ r.prop = "false" /\ r.status = 400
        /\ r.calls = <<"client.getChatById">>

OwnOnly(r) == r.method = "POST" /\ r.path \in {"/delete-message", "/edit-message"}

\* C11: for /delete-message and /edit-message, a message whose fromMe is
\* false is answered 400 ('Can only delete own messages' / 'Can only edit
\* own messages') with no call after getMessageById; message.delete and
\* message.edit are called only on a message whose fromMe is true.
C11_OwnMessagesOnly ==
    \A r \in Reqs :
        OwnOnly(r) =>
            /\ r.prop = "false" =>
                  /\ r.status = 400
                  /\ r.error = IF r.path = "/delete-message"
                               THEN "Can only delete own messages"
                               ELSE "Can only edit own messages"
                  /\ r.calls = <<"client.getMessageById">>
            /\ Len(r.calls) = 2 =>
                  /\ r.prop = "true"
                  /\ r.calls[2] = IF r.path = "/delete-message"
                                  THEN "message.delete" ELSE "message.edit"

\* POST /edit-message on a message of someone else got the 400, and
\* nothing was called after getMessageById.
C11_Witness ==
    \E r \in Reqs :
        /\ r.path = "/edit-message" /\ r.prop = "false" /\ r.status = 400
        /\ r.error = "Can only edit own messages"
        /\ r.calls = <<"client.getMessageById">>

(***************************************************************************)
(* C12.  Every POST /send-media request that has been answered, whatever   *)
(* the answer, has either stored no uploaded file or has deleted the one   *)
(* it stored.                                                              *)
(***************************************************************************)
C12_UploadCleanedUp ==
    \A r \in Reqs :
        r.path = "/send-media" /\ r.status # 0 => r.file # "stored"

(***************************************************************************)
(* C13.  The chat id made of an id that contains "@c.us" is the id itself, *)
(* the chat id made of any other id is the id followed by "@c.us"; the     *)
(* chat id always contains "@c.us", and the chat id made of a chat id is   *)
(* that chat id.                                                           *)
(***************************************************************************)
C13_Normalisation ==
    recipient.chatId # <<>> =>
        /\ includes(recipient.to, Suffix) => recipient.chatId = recipient.to
        /\ ~includes(recipient.to, Suffix) =>
               recipient.chatId = recipient.to \o Suffix
        /\ includes(recipient.chatId, Suffix)
        /\ recipient.again => recipient.chatId = recipient.to

\* An id without "@c.us" has been normalised, and the result normalised again.
C13_Witness ==
    /\ recipient.again
    /\ recipient.chatId # <<>>
    /\ ~includes(recipient.first, Suffix)

C15_NoLabelLost ==
    reqs = <<>> => added \subseteq labels

=============================================================================
